---------------------------- MODULE Spec2Model ----------------------------
(***************************************************************************)
(* State-machine model of the potato-disease inference service             *)
(* (src/backend/api/main.py): the module-level MODEL / CLASS_NAMES /       *)
(* IMAGE_SIZE, the /ping handler, and the /predict handler with its        *)
(* helpers read_file_as_image and preprocess_image.                        *)
(*                                                                         *)
(* Numeric conventions.  A uint8 sample is an integer 0..255.  A float32   *)
(* sample of a resized tensor is held exactly, as a numerator over Den     *)
(* (bilinear weights for a target side S are multiples of 1/(2S)).  A      *)
(* model score is held in thousandths (950 stands for 0.95).               *)
(* A float tensor is observed at the coordinates ProbeCoords only: the     *)
(* four corners and the four centre samples of every channel.              *)
(***************************************************************************)
EXTENDS Integers, Sequences, FiniteSets, TLC

VARIABLES MODEL, CLASS_NAMES, pc, file, locals, calls, outcome

vars == <<MODEL, CLASS_NAMES, pc, file, locals, calls, outcome>>

---------------------------------------------------------------------------
(* Bounds of the model.                                                    *)

\* number of request slots that can be in flight at once
NumRequests == 2
\* largest side, in pixels, of an uploaded image
MaxSide == 300
\* largest number of output units of a loaded model
MaxOutputs == 4

Requests == 1..NumRequests

---------------------------------------------------------------------------
(* Module-level configuration.                                             *)

IMAGE_SIZE == <<256, 256>>

ClassNamesInit == <<"Early_blight", "Late_blight", "Healthy">>

PingMessage == [message |-> "Hello, I'm berat"]

\* Python's None, for a local that is not bound
None == [none |-> TRUE]

Max2(a, b) == IF a >= b THEN a ELSE b
Min2(a, b) == IF a <= b THEN a ELSE b

---------------------------------------------------------------------------
(* Uploads.  The bytes of an upload are described by what they encode.     *)

Sides == {1, 2, MaxSide}
Modes == {"L", "RGB", "RGBA"}
\* encoded pixel streams: sample = base + step * (x + y) + 16 * band, mod 256
Patterns == {[base |-> 0, step |-> 0], [base |-> 200, step |-> 37]}

EmptyBytes == [kind |-> "empty"]
GarbageBytes == [kind |-> "garbage"]
TruncatedBytes == [kind |-> "truncated", mode |-> "RGB", w |-> 2, h |-> 2,
                   enc |-> [base |-> 200, step |-> 37]]

ImageBytes == [kind : {"image"}, mode : Modes, w : Sides, h : Sides, enc : Patterns]

Payloads == {EmptyBytes, GarbageBytes, TruncatedBytes} \cup ImageBytes

Filenames == {"leaf.jpg", "scan.png"}

Uploads == [filename : {"leaf.jpg"}, data : Payloads]

NoFile == [filename |-> "", data |-> None]

\* the uploads used when several requests are in flight: two file names, so
\* that the responses of two requests with the same bytes differ
FewPayloads == {EmptyBytes,
                [kind |-> "image", mode |-> "L", w |-> 2, h |-> 1,
                 enc |-> [base |-> 0, step |-> 0]],
                [kind |-> "image", mode |-> "RGB", w |-> 2, h |-> 2,
                 enc |-> [base |-> 200, step |-> 37]],
                [kind |-> "image", mode |-> "RGBA", w |-> 1, h |-> MaxSide,
                 enc |-> [base |-> 200, step |-> 37]]}

FewUploads == [filename : Filenames, data : FewPayloads]

NBands(mode) == CASE mode = "L" -> 1 [] mode = "RGB" -> 3 [] mode = "RGBA" -> 4

\* sample of band b (1-based) at row y, column x of an encoded pixel stream
PatValue(enc, y, x, b) == (enc.base + enc.step * (x + y) + 16 * (b - 1)) % 256

---------------------------------------------------------------------------
(* Stage results: a value, or a raised exception.                          *)

Ok(v) == [ok |-> TRUE, val |-> v]
Raise(e) == [ok |-> FALSE, exc |-> e]

---------------------------------------------------------------------------
(* read_file_as_image: Image.open(BytesIO(data)).convert("RGB"), np.array  *)

\* Image.open: identifies the format from the header (lazy: no pixel load)
ImageOpen(data) ==
    IF data.kind \in {"empty", "garbage"}
    THEN Raise("UnidentifiedImageError")
    ELSE Ok([mode |-> data.mode, size |-> <<data.w, data.h>>,
             enc |-> data.enc, bands |-> [b \in 1..NBands(data.mode) |-> b],
             complete |-> data.kind = "image"])

\* Image.convert("RGB"): loads the pixels, then L is replicated to three
\* bands, RGB is kept, and the alpha band of RGBA is dropped
ConvertRGB(im) ==
    IF ~im.complete
    THEN Raise("OSError")
    ELSE Ok([mode |-> "RGB", size |-> im.size, enc |-> im.enc,
             bands |-> CASE im.mode = "L" -> <<1, 1, 1>>
                         [] im.mode = "RGB" -> <<1, 2, 3>>
                         [] im.mode = "RGBA" -> <<1, 2, 3>>])

\* np.array(image): PIL size is (width, height), the array is (height, width, bands)
NpArray(im) ==
    [shape |-> <<im.size[2], im.size[1], Len(im.bands)>>, dtype |-> "uint8",
     enc |-> im.enc, bands |-> im.bands]

\* sample [y, x, c] (0-based) of a decoded array
Sample(arr, y, x, c) == PatValue(arr.enc, y, x, arr.bands[c + 1])

\* a decoder that answers a 1 x 1 black image when the bytes do not parse
read_file_as_image_default(data) ==
    LET opened == ImageOpen(data)
        rgb == IF opened.ok THEN ConvertRGB(opened.val) ELSE opened
    IN IF rgb.ok THEN Ok(NpArray(rgb.val))
       ELSE Ok([shape |-> <<1, 1, 3>>, dtype |-> "uint8",
                enc |-> [base |-> 0, step |-> 0], bands |-> <<1, 1, 1>>])

read_file_as_image(data) ==
    LET opened == ImageOpen(data) IN
    IF ~opened.ok THEN opened
    ELSE LET rgb == ConvertRGB(opened.val) IN
         IF ~rgb.ok THEN rgb ELSE Ok(NpArray(rgb.val))

---------------------------------------------------------------------------
(* preprocess_image: tf.image.resize(image, IMAGE_SIZE) (bilinear, half-    *)
(* pixel centres, no antialiasing), then np.expand_dims(img, axis=0).      *)

\* denominator of a resized sample
Den == (2 * IMAGE_SIZE[1]) * (2 * IMAGE_SIZE[2])

\* source coordinate of output index o, times 2 * out: (o + 0.5) * in/out - 0.5
AxisNum(o, in, out) == (2 * o + 1) * in - out
AxisFloor(o, in, out) == AxisNum(o, in, out) \div (2 * out)
\* interpolation weight of the upper neighbour, times 2 * out
AxisLerp(o, in, out) == AxisNum(o, in, out) - AxisFloor(o, in, out) * (2 * out)
AxisLower(o, in, out) == Max2(AxisFloor(o, in, out), 0)
AxisUpper(o, in, out) ==
    Min2(IF AxisLerp(o, in, out) = 0 THEN AxisFloor(o, in, out)
         ELSE AxisFloor(o, in, out) + 1, in - 1)

\* resized sample [oy, ox, c] of a decoded array, as a numerator over Den
ResizeSample(arr, size, oy, ox, c) ==
    LET h == arr.shape[1]
        w == arr.shape[2]
        ylo == AxisLower(oy, h, size[1])
        yhi == AxisUpper(oy, h, size[1])
        yl == AxisLerp(oy, h, size[1])
        xlo == AxisLower(ox, w, size[2])
        xhi == AxisUpper(ox, w, size[2])
        xl == AxisLerp(ox, w, size[2])
        top == Sample(arr, ylo, xlo, c) * (2 * size[2])
               + (Sample(arr, ylo, xhi, c) - Sample(arr, ylo, xlo, c)) * xl
        bot == Sample(arr, yhi, xlo, c) * (2 * size[2])
               + (Sample(arr, yhi, xhi, c) - Sample(arr, yhi, xlo, c)) * xl
    IN top * (2 * size[1]) + (bot - top) * yl

\* the output rows / columns at which a float tensor is observed
ProbeRows(size) == {0, size[1] \div 2 - 1, size[1] \div 2, size[1] - 1}
ProbeCols(size) == {0, size[2] \div 2 - 1, size[2] \div 2, size[2] - 1}
ProbeCoords(size, nc) == ProbeRows(size) \X ProbeCols(size) \X (0..(nc - 1))

TfImageResize(arr, size) ==
    [shape |-> <<size[1], size[2], arr.shape[3]>>, dtype |-> "float32",
     px |-> [p \in ProbeCoords(size, arr.shape[3]) |->
                ResizeSample(arr, size, p[1], p[2], p[3])]]

\* the commented-out line 30 made live: img = img / 255.0
Rescaled(t) == [t EXCEPT !.px = [p \in DOMAIN t.px |-> t.px[p] \div 255]]

NpExpandDims0(t) == [t EXCEPT !.shape = <<1>> \o t.shape]

\* np.expand_dims dropped: the resized image is passed on without a batch axis
preprocess_image_unbatched(image) == TfImageResize(image, IMAGE_SIZE)

\* line 30 made live
preprocess_image_rescaled(image) ==
    NpExpandDims0(Rescaled(TfImageResize(image, IMAGE_SIZE)))

preprocess_image(image) == NpExpandDims0(TfImageResize(image, IMAGE_SIZE))

---------------------------------------------------------------------------
(* MODEL = tf.keras.models.load_model(MODEL_PATH).  The artifact is not    *)
(* part of the sources: a loaded model is any deterministic classifier     *)
(* with a declared input shape and a number of output units.  `flexible`   *)
(* tells whether its layers accept other spatial sizes than the declared   *)
(* one (a fully convolutional network with global pooling does, a network  *)
(* with Flatten + Dense raises ValueError).                                *)

ScoreLevels == {100, 500}
InputShapes == {<<256, 256, 3>>, <<128, 128, 3>>}
OutputSizes == 2..MaxOutputs

\* the models used when several requests are in flight
ServedModels ==
    {[input_shape |-> <<256, 256, 3>>, flexible |-> FALSE, weights |-> <<20, 30, 950>>],
     [input_shape |-> <<256, 256, 3>>, flexible |-> FALSE, weights |-> <<500, 500, 100>>],
     [input_shape |-> <<128, 128, 3>>, flexible |-> TRUE, weights |-> <<950, 30, 30, 500>>],
     [input_shape |-> <<128, 128, 3>>, flexible |-> FALSE, weights |-> <<30, 950>>]}

\* every model of the pipeline specification (a flexible model of the
\* configured size behaves as a rigid one and is left out)
Models == {m \in UNION {[input_shape : InputShapes, flexible : BOOLEAN,
                         weights : [1..n -> ScoreLevels]] : n \in OutputSizes} :
              m.flexible => m.input_shape # <<IMAGE_SIZE[1], IMAGE_SIZE[2], 3>>}
          \cup ServedModels

\* what the classifier sees of a batch: how many of two opposite corner
\* samples are bright
Feature(batch) ==
    LET nc == batch.shape[Len(batch.shape)]
        a == <<0, 0, 0>>
        b == <<IMAGE_SIZE[1] - 1, IMAGE_SIZE[2] - 1, nc - 1>>
    IN (IF batch.px[a] >= 128 * Den THEN 1 ELSE 0)
       + (IF batch.px[b] >= 128 * Den THEN 1 ELSE 0)

\* MODEL.predict(input_batch): an array of shape (1, n)
ModelPredict(model, batch) ==
    IF Tail(batch.shape) # model.input_shape /\ ~model.flexible
    THEN Raise("ValueError")
    ELSE LET n == Len(model.weights)
             k == Feature(batch)
         IN Ok([shape |-> <<1, n>>, dtype |-> "float32",
                data |-> <<[i \in 1..n |-> model.weights[((i - 1 + k) % n) + 1]]>>])

---------------------------------------------------------------------------
(* Lines 44-54 of predict: np.argmax, np.max, the label lookup and the     *)
(* response dictionary.                                                    *)

\* np.argmax scans left to right and moves only on a strictly greater value
\* (best and the result are 1-based positions in the row)
RECURSIVE ArgmaxScan(_, _, _)
ArgmaxScan(row, i, best) ==
    IF i > Len(row) THEN best
    ELSE ArgmaxScan(row, i + 1, IF row[i] > row[best] THEN i ELSE best)

\* a scan that also moves on an equal value: the last maximum wins
RECURSIVE ArgmaxScanLast(_, _, _)
ArgmaxScanLast(row, i, best) ==
    IF i > Len(row) THEN best
    ELSE ArgmaxScanLast(row, i + 1, IF row[i] >= row[best] THEN i ELSE best)

NpArgmaxLast(row) == [dtype |-> "int64", v |-> ArgmaxScanLast(row, 2, 1) - 1]

\* np.argmax(row): a 0-based index, as a numpy int64 scalar
NpArgmax(row) == [dtype |-> "int64", v |-> ArgmaxScan(row, 2, 1) - 1]

RECURSIVE MaxScan(_, _, _)
MaxScan(row, i, m) ==
    IF i > Len(row) THEN m ELSE MaxScan(row, i + 1, Max2(m, row[i]))

RECURSIVE SumScan(_, _)
SumScan(row, i) == IF i > Len(row) THEN 0 ELSE row[i] + SumScan(row, i + 1)

\* the maximum divided by the sum of the row (the scores normalised again)
NpMaxNormalised(row) ==
    [dtype |-> "float32", v |-> (MaxScan(row, 2, row[1]) * 1000) \div SumScan(row, 1)]

\* np.max(row): a numpy float32 scalar
NpMax(row) == [dtype |-> "float32", v |-> MaxScan(row, 2, row[1])]

\* int(...) of a numpy integer scalar, float(...) of a numpy float32 scalar
\* (widening float32 to a Python float keeps the value)
PyInt(s) == s.v
PyFloat(s) == s.v

\* str(image.shape)
RECURSIVE JoinDims(_, _)
JoinDims(shape, i) ==
    IF i > Len(shape) THEN ""
    ELSE (IF i > 1 THEN ", " ELSE "") \o ToString(shape[i]) \o JoinDims(shape, i + 1)

ShapeStr(shape) == "(" \o JoinDims(shape, 1) \o ")"

---------------------------------------------------------------------------
(* The frame of one predict call: the stages it entered, its locals, and   *)
(* how it ended (a returned dictionary or a raised exception).             *)

Stages == <<"decode", "preprocess", "classify", "assemble">>

NoLocals == [image |-> None, input_batch |-> None, preds |-> None, predicted_index |-> -1]

Pending == [kind |-> "pending"]
Returned(body) == [kind |-> "return", body |-> body]
Raised(e, stage) == [kind |-> "raise", exc |-> e, stage |-> stage]

Frame(c, l, o) == [calls |-> c, locals |-> l, outcome |-> o]

\* lines 41-54, with image and input_batch bound
predict_tail(f, model, names, image, input_batch) ==
    LET run == ModelPredict(model, input_batch)
        l2 == [NoLocals EXCEPT !.image = image, !.input_batch = input_batch]
    IN IF ~run.ok
       THEN Frame(SubSeq(Stages, 1, 3), l2, Raised(run.exc, "classify"))
       ELSE LET preds == run.val
                predicted_index == PyInt(NpArgmax(preds.data[1]))
                l3 == [l2 EXCEPT !.preds = preds, !.predicted_index = predicted_index]
            IN IF predicted_index >= Len(names)
               THEN Frame(Stages, l3, Raised("IndexError", "assemble"))
               ELSE Frame(Stages, l3,
                          Returned([filename |-> f.filename,
                                    prediction |-> names[predicted_index + 1],
                                    confidence |-> PyFloat(NpMax(preds.data[1])),
                                    class_index |-> predicted_index,
                                    shape |-> ShapeStr(image.shape)]))

\* a handler that catches a decoding failure, decodes once more, and goes on
\* with a 1 x 1 black image when that fails too
predict_body_lenient(f, model, names) ==
    LET dec == read_file_as_image(f.data)
        blank == [shape |-> <<1, 1, 3>>, dtype |-> "uint8",
                  enc |-> [base |-> 0, step |-> 0], bands |-> <<1, 1, 1>>]
    IN IF dec.ok
       THEN predict_tail(f, model, names, dec.val, preprocess_image(dec.val))
       ELSE LET t == predict_tail(f, model, names, blank, preprocess_image(blank))
            IN [t EXCEPT !.calls = <<"decode">> \o t.calls]

\* lines 38-54: the body of predict once the upload has been read
predict_body(f, model, names) ==
    LET dec == read_file_as_image(f.data)
    IN IF ~dec.ok
       THEN Frame(SubSeq(Stages, 1, 1), NoLocals, Raised(dec.exc, "decode"))
       ELSE predict_tail(f, model, names, dec.val, preprocess_image(dec.val))

---------------------------------------------------------------------------
(* Actions.  A handler runs on the event loop: it is atomic between two    *)
(* awaits.  predict has one await, file.read() on line 38.                 *)

\* GET /ping
ping(r) ==
    /\ pc[r] = "idle"
    /\ pc' = [pc EXCEPT ![r] = "done"]
    /\ outcome' = [outcome EXCEPT ![r] = Returned(PingMessage)]
    /\ UNCHANGED <<MODEL, CLASS_NAMES, file, locals, calls>>

\* POST /predict, up to the await of file.read() (lines 35-38)
predict_call(r, u) ==
    /\ pc[r] = "idle"
    /\ pc' = [pc EXCEPT ![r] = "await_read"]
    /\ file' = [file EXCEPT ![r] = u]
    /\ UNCHANGED <<MODEL, CLASS_NAMES, locals, calls, outcome>>

\* a handler reading the upload of the lowest request that awaits its read
\* (one module-level "current upload" shared by all requests)
UploadOfShared(r) == file[CHOOSE q \in Requests : pc[q] = "await_read"]

\* the UploadFile bound to the parameter `file` of this call
UploadOf(r) == file[r]

\* the effect of lines 38-54 on the frame of request r
predict_frame(r) ==
    /\ pc[r] = "await_read"
    /\ LET fr == predict_body(UploadOf(r), MODEL, CLASS_NAMES)
       IN /\ locals' = [locals EXCEPT ![r] = fr.locals]
          /\ calls' = [calls EXCEPT ![r] = fr.calls]
          /\ outcome' = [outcome EXCEPT ![r] = fr.outcome]
    /\ pc' = [pc EXCEPT ![r] = "done"]
    /\ UNCHANGED file

\* a handler that consumes the label it returned
predict_resume_pop(r) ==
    /\ predict_frame(r)
    /\ MODEL' = MODEL
    /\ CLASS_NAMES' = IF outcome'[r].kind = "return" /\ Len(CLASS_NAMES) > 1
                      THEN Tail(CLASS_NAMES) ELSE CLASS_NAMES

\* POST /predict, from the completion of file.read() to the end (lines 38-54)
predict_resume(r) ==
    /\ predict_frame(r)
    /\ UNCHANGED <<MODEL, CLASS_NAMES>>

\* the serving layer sends the response (or the error) and drops the frame
respond(r) ==
    /\ pc[r] = "done"
    /\ pc' = [pc EXCEPT ![r] = "idle"]
    /\ file' = [file EXCEPT ![r] = NoFile]
    /\ locals' = [locals EXCEPT ![r] = NoLocals]
    /\ calls' = [calls EXCEPT ![r] = <<>>]
    /\ outcome' = [outcome EXCEPT ![r] = Pending]
    /\ UNCHANGED <<MODEL, CLASS_NAMES>>

InitRequests ==
    /\ CLASS_NAMES = ClassNamesInit
    /\ pc = [r \in Requests |-> "idle"]
    /\ file = [r \in Requests |-> NoFile]
    /\ locals = [r \in Requests |-> NoLocals]
    /\ calls = [r \in Requests |-> <<>>]
    /\ outcome = [r \in Requests |-> Pending]

\* the server: any number of requests in flight, interleaved at the await
Init ==
    /\ MODEL \in ServedModels
    /\ InitRequests

Next ==
    \E r \in Requests :
        \/ ping(r)
        \/ \E u \in FewUploads : predict_call(r, u)
        \/ predict_resume(r)
        \/ respond(r)

Spec == Init /\ [][Next]_vars

\* one request at a time, over every model and every upload
InitPipeline ==
    /\ MODEL \in Models
    /\ InitRequests

NextPipeline ==
    \/ ping(1)
    \/ \E u \in Uploads : predict_call(1, u)
    \/ predict_resume(1)
    \/ respond(1)

SpecPipeline == InitPipeline /\ [][NextPipeline]_vars

---------------------------------------------------------------------------
(* Properties.                                                             *)

\* request slot r holds a predict call that has run to its end
Finished(r) == pc[r] = "done" /\ file[r] # NoFile

\* the scores of request r (preds[0]), once preds is bound
Row(r) == locals[r].preds.data[1]

IsMaxAt(row, i) == \A j \in 1..Len(row) : row[j] <= row[i]

\* the exceptions with which the decoder reports bytes that are no image
DecodeErrors == {"UnidentifiedImageError", "OSError"}

\* C1: whenever predict has computed predicted_index from a score row, it is
\* an index of a maximum of the row, and every earlier score is strictly
\* smaller (the lowest index of the maximum is selected).
C1_ArgmaxFirstMax ==
    \A r \in Requests :
        (Finished(r) /\ locals[r].preds # None) =>
            LET k == locals[r].predicted_index IN
            /\ k \in 0..(Len(Row(r)) - 1)
            /\ IsMaxAt(Row(r), k + 1)
            /\ \A j \in 1..k : Row(r)[j] < Row(r)[k + 1]

\* the scores [0.5, 0.5, 0.1] gave predicted_index 0
C1_Witness ==
    \E r \in Requests :
        /\ Finished(r) /\ locals[r].preds # None
        /\ Row(r) = <<500, 500, 100>>
        /\ locals[r].predicted_index = 0

\* C2: in every returned prediction, confidence is the score at class_index,
\* no score of the row exceeds it, and prediction is the label at class_index.
C2_ConfidenceAndLabel ==
    \A r \in Requests :
        (Finished(r) /\ outcome[r].kind = "return") =>
            LET b == outcome[r].body IN
            /\ b.class_index \in 0..(Len(Row(r)) - 1)
            /\ b.confidence = Row(r)[b.class_index + 1]
            /\ IsMaxAt(Row(r), b.class_index + 1)
            /\ b.class_index < Len(CLASS_NAMES)
            /\ b.prediction = CLASS_NAMES[b.class_index + 1]

\* the scores [0.02, 0.03, 0.95] gave Healthy, 2, 0.95; and a row that does
\* not sum to 1 was returned with its maximum as it is
C2_Witness ==
    \E r \in Requests :
        /\ Finished(r) /\ outcome[r].kind = "return"
        /\ Row(r) = <<20, 30, 950>>
        /\ outcome[r].body.prediction = "Healthy"
        /\ outcome[r].body.class_index = 2
        /\ outcome[r].body.confidence = 950

\* C3: whenever the score row and the label table differ in length, the
\* request ends with an exception of the assemble stage and returns nothing
\* (stated for the models whose input shape is the shape of the batch, so
\* that nothing but the length of the row is at fault).
C3_LengthMismatchRaises ==
    \A r \in Requests :
        (Finished(r) /\ locals[r].preds # None /\ Len(Row(r)) # Len(CLASS_NAMES)
            /\ Tail(locals[r].input_batch.shape) = MODEL.input_shape) =>
            /\ outcome[r].kind = "raise"
            /\ outcome[r].stage = "assemble"

\* C4: whenever the batch shape differs from the input shape of the model,
\* the request ends with an exception of the classify stage and the model
\* has produced no scores for the batch (stated for the models with one
\* output unit per label, so that nothing but the shape is at fault).
C4_ShapeValidatedBeforeInvoke ==
    \A r \in Requests :
        (Finished(r) /\ locals[r].input_batch # None
            /\ Len(MODEL.weights) = Len(CLASS_NAMES)
            /\ Tail(locals[r].input_batch.shape) # MODEL.input_shape) =>
            /\ outcome[r].kind = "raise"
            /\ outcome[r].stage = "classify"
            /\ locals[r].preds = None

\* C5: whenever the uploaded bytes are not a complete image (empty, not an
\* image, truncated), the request ends with the decoder's exception, raised
\* in the decode stage; no image, batch or scores are bound and nothing is
\* returned.
C5_DecodeFailureSurfaces ==
    \A r \in Requests :
        (Finished(r) /\ file[r].data.kind # "image") =>
            /\ outcome[r].kind = "raise"
            /\ outcome[r].exc \in DecodeErrors
            /\ outcome[r].stage = "decode"
            /\ locals[r] = NoLocals

\* the empty byte buffer was rejected
C5_Witness ==
    \E r \in Requests :
        /\ Finished(r) /\ file[r].data = EmptyBytes
        /\ outcome[r] = Raised("UnidentifiedImageError", "decode")

\* C6: the stages a request has entered are a prefix of decode, preprocess,
\* classify, assemble, each entered once; a request that returns has entered
\* all four; a request that raises raised in the last stage it entered; bytes
\* that are not a complete image stop the request in decode; and before the
\* upload is read no stage has run.
C6_StagesInOrderFailFast ==
    \A r \in Requests :
        /\ pc[r] # "done" => calls[r] = <<>> /\ outcome[r] = Pending
        /\ Finished(r) =>
            /\ Len(calls[r]) \in 1..Len(Stages)
            /\ calls[r] = SubSeq(Stages, 1, Len(calls[r]))
            /\ outcome[r].kind \in {"return", "raise"}
            /\ outcome[r].kind = "return" => calls[r] = Stages
            /\ outcome[r].kind = "raise" => outcome[r].stage = calls[r][Len(calls[r])]
            /\ file[r].data.kind # "image" => calls[r] = <<"decode">>

\* one request stopped in decode, one stopped in classify or assemble, and
\* one ran all four stages and returned
C6_Witness ==
    /\ \E r \in Requests : Finished(r) /\ outcome[r].kind = "raise" /\ calls[r] = <<"decode">>
    /\ \E r \in Requests : Finished(r) /\ outcome[r].kind = "return" /\ calls[r] = Stages

\* C7: every batch preprocess_image has produced has the shape
\* (1, 256, 256, 3), whatever the height and width of the decoded image.
C7_BatchShape ==
    \A r \in Requests :
        (Finished(r) /\ locals[r].input_batch # None) =>
            locals[r].input_batch.shape = <<1, 256, 256, 3>>

\* a grayscale image of 1 x MaxSide pixels was decoded and batched
C7_Witness ==
    \E r \in Requests :
        /\ Finished(r) /\ locals[r].input_batch # None
        /\ file[r].data.mode = "L"
        /\ locals[r].image.shape = <<MaxSide, 1, 3>>

\* C8: no step changes MODEL or CLASS_NAMES, and CLASS_NAMES is the table
\* the module defines.
C8_SharedStateNeverModified ==
    /\ [](CLASS_NAMES = ClassNamesInit)
    /\ [][MODEL' = MODEL /\ CLASS_NAMES' = CLASS_NAMES]_vars

\* a ping, a failed prediction or a returned prediction have been served
C8_Witness ==
    /\ \E r \in Requests : Finished(r) /\ outcome[r].kind = "return"
    /\ \E r \in Requests : pc[r] = "done" /\ outcome[r] = Returned(PingMessage)

\* the decoded samples between which the batch sample p is interpolated
Neighbours(image, p) ==
    {Sample(image, y, x, p[3]) :
        y \in {AxisLower(p[1], image.shape[1], IMAGE_SIZE[1]),
               AxisUpper(p[1], image.shape[1], IMAGE_SIZE[1])},
        x \in {AxisLower(p[2], image.shape[2], IMAGE_SIZE[2]),
               AxisUpper(p[2], image.shape[2], IMAGE_SIZE[2])}}

\* C9: every sample of a batch lies in 0..255 and between the smallest and
\* the largest of the decoded samples it is interpolated from (so a sample
\* surrounded by equal values keeps that value: nothing is divided by 255).
C9_NoRescale ==
    \A r \in Requests :
        (Finished(r) /\ locals[r].input_batch # None) =>
            \A p \in DOMAIN locals[r].input_batch.px :
                LET v == locals[r].input_batch.px[p] IN
                /\ 0 <= v /\ v <= 255 * Den
                /\ \A n \in Neighbours(locals[r].image, p) :
                       (\A m \in Neighbours(locals[r].image, p) : n <= m) => n * Den <= v
                /\ \A n \in Neighbours(locals[r].image, p) :
                       (\A m \in Neighbours(locals[r].image, p) : m <= n) => v <= n * Den

\* a batch with a sample of at least 200 and a sample strictly between two
\* integers (an interpolated one)
C9_Witness ==
    \E r \in Requests :
        /\ Finished(r) /\ locals[r].input_batch # None
        /\ \E p \in DOMAIN locals[r].input_batch.px : locals[r].input_batch.px[p] >= 200 * Den
        /\ \E p \in DOMAIN locals[r].input_batch.px : locals[r].input_batch.px[p] % Den # 0

\* C10: whatever other requests are in flight, the outcome and the locals of
\* a finished predict request are those of running lines 38-54 on its own
\* upload.
C10_ResponseFromOwnUpload ==
    \A r \in Requests :
        Finished(r) =>
            LET alone == predict_body(file[r], MODEL, CLASS_NAMES) IN
            /\ outcome[r] = alone.outcome
            /\ locals[r] = alone.locals
            /\ outcome[r].kind = "return" => outcome[r].body.filename = file[r].filename

\* two requests with different uploads have both returned, with different
\* responses, while both frames are live
C10_Witness ==
    \E r, q \in Requests :
        /\ r # q /\ Finished(r) /\ Finished(q)
        /\ file[r].data # file[q].data /\ file[r].filename # file[q].filename
        /\ outcome[r].kind = "return" /\ outcome[q].kind = "return"
        /\ outcome[r].body.shape # outcome[q].body.shape

=============================================================================
